---- MODULE Spec2Model ----
\* The rapidgzip extension build script (src/python/rapidgzip/setup.py) as a state
\* machine: module-level dependency resolution, host-capability gating of ISA-L,
\* assembly of the source and include lists, and Build.build_extensions with the
\* compile dispatcher (newCompile) that it installs over compiler.compile.
\*
\* A source path is modelled as the sequence of its dot-free segments, i.e. what
\* Python's path.split('.') returns: "igzip/igzip.c" is <<"igzip/igzip", "c">> and a
\* path without a dot is a one-element sequence.  str.endswith('.c'), "'.' in s" and
\* s.rsplit('.', maxsplit=1)[1] are then computed on the segments exactly as Python
\* computes them on the characters.
EXTENDS Integers, Sequences, FiniteSets, TLC

VARIABLES
    \* ---- the host the script runs on (read, never written, by the script)
    buildConfig,      \* os.environ restricted to RAPIDGZIP_BUILD_* (line 38)
    machine,          \* platform.machine()
    system,           \* platform.system()
    nasmOnPath,       \* shutil.which("nasm") is not None
    haveCython,       \* the import of Cython.Build succeeded (lines 21-24)
    \* ---- module-level state of setup.py
    pc,               \* position of the script
    withCxxopts, withIsal, withRpmalloc, withZlib,
    architecture, canBuildIsal,
    log,              \* the warnings printed so far, in order
    zlib_sources, isal_sources, rpmalloc_sources,
    include_dirs,
    extSources,       \* extensions[0].sources
    extIncludeDirs,   \* extensions[0].include_dirs
    \* ---- Build.build_extensions and one call of newCompile
    nasmCompiler,     \* the closure variable of newCompile
    callSources,      \* the `sources` argument of the running newCompile call
    cppSources, cSources, asmSources, nasmSources,
    objects,          \* the local list `objects`
    invocations,      \* backend invocations made so far, in order
    cwdCopies,        \* the files that newCompile has copied to "."
    returned,         \* the value newCompile returned, or None
    \* ---- the compiler and the extension list Build.build_extensions works on
    compiler_type,    \* self.compiler.compiler_type
    numExtensions,    \* len(self.extensions)
    headerAvailable,  \* the compiler finds <unistd.h>
    verdict,          \* flag -> does the compiler accept it, for the flags tried so far
    \* ---- flag composition (the loop of lines 348-429) and the probes
    extIndex,         \* which extension the running loop is at
    extra_compile_args, extra_link_args, libraries,   \* per extension
    probe,            \* the running supportsFlag/hasInclude call
    tmpdir,           \* the temporary files that exist
    trialLog,         \* the trial compiles made so far, in order
    probeLog,         \* what the probes returned so far, in order
    \* ---- the keyword arguments and the outcome of a newCompile call
    callNo,           \* how many newCompile calls were started
    callPostargs,     \* kwargs['extra_postargs'], or None when the key is absent
    callIncludeDirs,  \* kwargs.get('include_dirs', [])
    error             \* the exception that left build_extensions, or None

envVars == <<buildConfig, machine, system, nasmOnPath, haveCython>>
optVars == <<withCxxopts, withIsal, withRpmalloc, withZlib>>
gateVars == <<architecture, canBuildIsal>>
srcVars == <<zlib_sources, isal_sources, rpmalloc_sources, include_dirs,
             extSources, extIncludeDirs>>
callVars == <<callSources, cppSources, cSources, asmSources, nasmSources,
              objects, invocations, cwdCopies, returned>>
compilerVars == <<compiler_type, numExtensions, headerAvailable, verdict>>
flagVars == <<extIndex, extra_compile_args, extra_link_args, libraries>>
probeVars == <<probe, tmpdir, trialLog, probeLog>>
kwVars == <<callNo, callPostargs, callIncludeDirs>>
buildVars == <<compilerVars, flagVars, probeVars, kwVars, error>>
vars == <<envVars, pc, optVars, gateVars, log, srcVars, nasmCompiler, callVars, buildVars>>

None == "None"

\* ------------------------------------------------------------------ inputs

\* setup.py:27-30 (with the key line 53 really reads, CXXOPTS)
DependencyKeys == {"CXXOPTS", "ISAL", "RPMALLOC", "ZLIB"}

\* setup.py:37
optionsPrefix == "RAPIDGZIP_BUILD_"

\* setup.py:47
validValues == <<"enable", "disable", "system">>

\* Strings a user can put into the environment that are not in validValues: a
\* differently-cased spelling, another word, the empty string.
InvalidSpellings == <<"Enable", "on", "">>

\* How many of the InvalidSpellings the environments are built from.
MaxInvalid == 1

InvalidValues == {InvalidSpellings[i] : i \in {j \in DOMAIN InvalidSpellings : j <= MaxInvalid}}

RequestValues == {"enable", "disable", "system"} \cup InvalidValues

\* Every environment: each option is either absent or set to some string.
BuildConfigs ==
    UNION {[{optionsPrefix \o k : k \in D} -> RequestValues] : D \in SUBSET DependencyKeys}

\* x86_64 and aarch64 under both of their names, and a 32-bit machine.
Machines == {"x86_64", "AMD64", "aarch64", "arm64", "i686"}

Systems == {"Linux", "Darwin", "Windows"}

\* sys.platform of the interpreter that platform.system() describes.
sysPlatform ==
    CASE system = "Linux" -> "linux"
      [] system = "Darwin" -> "darwin"
      [] system = "Windows" -> "win32"

Range(s) == {s[i] : i \in DOMAIN s}

\* str.__contains__ for a list
InList(x, s) == \E i \in DOMAIN s : s[i] = x

\* prefix + source, for a prefix without a dot
Prepend(prefix, source) == [source EXCEPT ![1] = prefix \o @]

PrependAll(prefix, sources) == [i \in DOMAIN sources |-> Prepend(prefix, sources[i])]

\* list(set(xs)): the elements of xs without duplicates, in some order
RECURSIVE SetToSeq(_)
SetToSeq(S) ==
    IF S = {} THEN <<>>
    ELSE LET x == CHOOSE y \in S : TRUE IN <<x>> \o SetToSeq(S \ {x})

\* ------------------------------------------------- Dependency Resolver

\* setup.py:46, buildConfig.get(key, 'enable')
RequestedOption(key) ==
    IF optionsPrefix \o key \in DOMAIN buildConfig
    THEN buildConfig[optionsPrefix \o key]
    ELSE "enable"

\* A resolver that passes an unrecognized value through unchanged.
getDependencyOption_passthrough(key) == RequestedOption(key)

\* setup.py:44-50, the value getDependencyOption returns
getDependencyOption(key) ==
    LET option == RequestedOption(key)
    IN  IF option = "system" \/ option = "enable" THEN option ELSE "disable"

\* setup.py:48-49, what getDependencyOption prints
getDependencyOptionLog(key) ==
    LET option == RequestedOption(key)
    IN  IF ~InList(option, validValues)
        THEN <<[kind |-> "Unrecognized", key |-> optionsPrefix \o key, option |-> option]>>
        ELSE <<>>

\* A script without the override of lines 58-60.
forceCxxopts_missing(option) == option

\* setup.py:58-60, cxxopts can not be disabled
forceCxxopts(option) == IF option = "disable" THEN "enable" ELSE option

\* setup.py:59, the warning of the override
forceCxxoptsLog(option) ==
    IF option = "disable"
    THEN <<[kind |-> "ForcedOverride", key |-> optionsPrefix \o "CXXOPTS", option |-> option]>>
    ELSE <<>>

\* setup.py:53-60
ResolveOptions ==
    /\ pc = "options"
    /\ withCxxopts' = forceCxxopts(getDependencyOption("CXXOPTS"))
    /\ withIsal' = getDependencyOption("ISAL")
    /\ withRpmalloc' = getDependencyOption("RPMALLOC")
    /\ withZlib' = getDependencyOption("ZLIB")
    /\ log' = log \o getDependencyOptionLog("CXXOPTS") \o getDependencyOptionLog("ISAL")
                  \o getDependencyOptionLog("RPMALLOC") \o getDependencyOptionLog("ZLIB")
                  \o forceCxxoptsLog(getDependencyOption("CXXOPTS"))
    /\ pc' = "gate"
    /\ UNCHANGED <<buildVars, envVars, gateVars, srcVars, nasmCompiler, callVars>>

\* setup.py:65-72, the value of `architecture`
DetectArchitecture(m) ==
    IF m \in {"x86_64", "AMD64"} THEN "x86_64"
    ELSE IF m \in {"aarch64", "arm64"} THEN "aarch64"
    ELSE None

\* A gate that takes every machine outside the two ARM names for x86_64.
CanBuildIsal_anyArchitecture(m, sys, nasm) ==
    IF sys = "Darwin" THEN FALSE
    ELSE IF m \in {"aarch64", "arm64"} THEN TRUE ELSE nasm

\* A gate without the macOS denylist of lines 77-78.
CanBuildIsal_noDenylist(m, sys, nasm) ==
    IF m \in {"x86_64", "AMD64"} THEN nasm
    ELSE IF m \in {"aarch64", "arm64"} THEN TRUE
    ELSE FALSE

\* A gate that does not look for nasm on x86_64.
CanBuildIsal_noNasmLookup(m, sys, nasm) ==
    IF sys = "Darwin" THEN FALSE
    ELSE m \in {"x86_64", "AMD64", "aarch64", "arm64"}

\* setup.py:66-78, the value of `canBuildIsal` before line 79
CanBuildIsal(m, sys, nasm) ==
    LET byMachine == IF m \in {"x86_64", "AMD64"} THEN nasm
                     ELSE IF m \in {"aarch64", "arm64"} THEN TRUE
                     ELSE FALSE
    IN  IF sys = "Darwin" THEN FALSE ELSE byMachine

\* A gate that turns the accelerator on whenever the host can build it.
GateIsalMode_widening(can, mode) == IF ~can THEN "disable" ELSE "enable"

\* setup.py:79-80
GateIsalMode(can, mode) == IF ~can THEN "disable" ELSE mode

\* setup.py:65-80
GateIsal ==
    /\ pc = "gate"
    /\ architecture' = DetectArchitecture(machine)
    /\ canBuildIsal' = CanBuildIsal(machine, system, nasmOnPath)
    /\ withIsal' = GateIsalMode(CanBuildIsal(machine, system, nasmOnPath), withIsal)
    /\ pc' = "assemble"
    /\ UNCHANGED <<buildVars, envVars, withCxxopts, withRpmalloc, withZlib, log, srcVars,
                   nasmCompiler, callVars>>

\* ------------------------------------------------- Source Set Assembler

\* setup.py:90
zlib_source_names ==
    << <<"deflate", "c">>, <<"inflate", "c">>, <<"crc32", "c">>, <<"adler32", "c">>,
       <<"inftrees", "c">>, <<"inffast", "c">>, <<"trees", "c">>, <<"zutil", "c">> >>

\* Bundled zlib compiled whenever zlib is not disabled.
ZlibSources_unlessDisabled(mode) ==
    IF mode # "disable" THEN PrependAll("external/zlib/", zlib_source_names) ELSE <<>>

\* setup.py:88-91
ZlibSources(mode) ==
    IF mode = "enable" THEN PrependAll("external/zlib/", zlib_source_names) ELSE <<>>

\* setup.py:93-113, the portable-C sources of ISA-L (before the per-architecture
\* table is appended at line 194).
isal_sources_base ==
    << <<"igzip/igzip_inflate", "c">>,
       <<"igzip/igzip", "c">>,
       <<"igzip/hufftables_c", "c">>,
       <<"igzip/encode_df", "c">>,
       <<"igzip/igzip_icf_base", "c">>,
       <<"igzip/igzip_icf_body", "c">>,
       <<"igzip/igzip_base", "c">>,
       <<"igzip/adler32_base", "c">>,
       <<"igzip/flatten_ll", "c">>,
       <<"igzip/huff_codes", "c">>,
       <<"crc/crc_base", "c">> >>

\* setup.py:115-159, isal_sources_by_architecture['x86_64'].
isal_sources_x86_64 ==
    << <<"include/reg_sizes", "asm">>,
       <<"include/multibinary", "asm">>,
       <<"igzip/igzip_inflate_multibinary", "asm">>,
       <<"igzip/igzip_decode_block_stateless_01", "asm">>,
       <<"igzip/igzip_decode_block_stateless_04", "asm">>,
       <<"igzip/rfc1951_lookup", "asm">>,
       <<"igzip/stdmac", "asm">>,
       <<"igzip/igzip_deflate_hash", "asm">>,
       <<"igzip/igzip_body", "asm">>,
       <<"igzip/igzip_multibinary", "asm">>,
       <<"igzip/igzip_update_histogram_01", "asm">>,
       <<"igzip/igzip_update_histogram_04", "asm">>,
       <<"igzip/encode_df_04", "asm">>,
       <<"igzip/encode_df_06", "asm">>,
       <<"igzip/igzip_finish", "asm">>,
       <<"igzip/igzip_gen_icf_map_lh1_04", "asm">>,
       <<"igzip/igzip_gen_icf_map_lh1_06", "asm">>,
       <<"igzip/igzip_icf_body_h1_gr_bt", "asm">>,
       <<"igzip/igzip_icf_finish", "asm">>,
       <<"igzip/igzip_set_long_icf_fg_04", "asm">>,
       <<"igzip/igzip_set_long_icf_fg_06", "asm">>,
       <<"igzip/proc_heap", "asm">>,
       <<"igzip/adler32_avx2_4", "asm">>,
       <<"igzip/adler32_sse", "asm">>,
       <<"crc/crc_multibinary", "asm">>,
       <<"crc/crc32_gzip_refl_by16_10", "asm">>,
       <<"crc/crc32_gzip_refl_by8_02", "asm">>,
       <<"crc/crc32_gzip_refl_by8", "asm">> >>

\* setup.py:160-190, isal_sources_by_architecture['aarch64'].
isal_sources_aarch64 ==
    << <<"crc/aarch64/crc_aarch64_dispatcher", "c">>,
       <<"igzip/proc_heap_base", "c">>,
       <<"igzip/aarch64/encode_df", "S">>,
       <<"igzip/aarch64/gen_icf_map", "S">>,
       <<"igzip/aarch64/igzip_decode_huffman_code_block_aarch64", "S">>,
       <<"igzip/aarch64/igzip_deflate_body_aarch64", "S">>,
       <<"igzip/aarch64/igzip_deflate_finish_aarch64", "S">>,
       <<"igzip/aarch64/igzip_deflate_hash_aarch64", "S">>,
       <<"igzip/aarch64/igzip_inflate_multibinary_arm64", "S">>,
       <<"igzip/aarch64/igzip_isal_adler32_neon", "S">>,
       <<"igzip/aarch64/igzip_multibinary_aarch64_dispatcher", "c">>,
       <<"igzip/aarch64/igzip_multibinary_arm64", "S">>,
       <<"igzip/aarch64/igzip_set_long_icf_fg", "S">>,
       <<"igzip/aarch64/isal_deflate_icf_body_hash_hist", "S">>,
       <<"igzip/aarch64/isal_deflate_icf_finish_hash_hist", "S">>,
       <<"igzip/aarch64/isal_update_histogram", "S">>,
       <<"crc/aarch64/crc_multibinary_arm", "S">>,
       <<"crc/aarch64/crc32_gzip_refl_3crc_fold", "S">>,
       <<"crc/aarch64/crc32_gzip_refl_crc_ext", "S">>,
       <<"crc/aarch64/crc32_gzip_refl_pmull", "S">> >>

\* setup.py:114-191, the table as a function of the architecture name
isal_sources_by_architecture ==
    [a \in {"x86_64", "aarch64"} |->
        IF a = "x86_64" THEN isal_sources_x86_64 ELSE isal_sources_aarch64]

\* setup.py:192-194, isal_sources after the loop over the table
IsalSourcesWithArchitecture(arch) ==
    isal_sources_base
        \o (IF arch = "x86_64" THEN isal_sources_by_architecture["x86_64"] ELSE <<>>)
        \o (IF arch = "aarch64" THEN isal_sources_by_architecture["aarch64"] ELSE <<>>)

\* setup.py:195, the prefixed list of the deduplicated sources, per architecture
\* (evaluated once: it does not depend on the state)
DedupedIsalSources ==
    [arch \in {"x86_64", "aarch64", None} |->
        PrependAll("external/isa-l/", SetToSeq(Range(IsalSourcesWithArchitecture(arch))))]

\* The same with every table entry appended, whatever the architecture.
DedupedIsalSourcesOfAllTables ==
    PrependAll("external/isa-l/",
        SetToSeq(Range(isal_sources_base \o isal_sources_x86_64 \o isal_sources_aarch64)))

\* An assembler that does not compare the table's key with the architecture.
IsalSources_allTables(arch, mode) ==
    IF mode = "enable" THEN DedupedIsalSourcesOfAllTables ELSE <<>>

\* An assembler that compiles ISA-L whenever it is not disabled.
IsalSources_unlessDisabled(arch, mode) ==
    IF mode # "disable" THEN DedupedIsalSources[arch] ELSE <<>>

\* setup.py:192-195
IsalSources(arch, mode) ==
    IF mode = "enable" THEN DedupedIsalSources[arch] ELSE <<>>

\* setup.py:197-206
base_include_dirs ==
    <<".", "core", "huffman", "rapidgzip", "rapidgzip/chunkdecoding", "rapidgzip/huffman",
      "rapidgzip/gzip", "indexed_bzip2">>

\* setup.py:207
isal_includes == <<"external/isa-l/include", "external/isa-l/igzip", "external/isa-l">>

\* setup.py:197-215
IncludeDirs(isal, zlib, rpmalloc, cxxopts) ==
    base_include_dirs
        \o (IF isal = "enable" THEN isal_includes ELSE <<>>)
        \o (IF zlib = "enable" THEN <<"external/zlib">> ELSE <<>>)
        \o (IF rpmalloc = "enable" THEN <<"external/rpmalloc/rpmalloc">> ELSE <<>>)
        \o (IF cxxopts = "enable" THEN <<"external/cxxopts/include">> ELSE <<>>)

\* setup.py:217
RpmallocSources(mode) ==
    IF mode = "enable" THEN << <<"external/rpmalloc/rpmalloc/rpmalloc", "c">> >> ELSE <<>>

\* setup.py:88-228
Assemble ==
    /\ pc = "assemble"
    /\ zlib_sources' = ZlibSources(withZlib)
    /\ isal_sources' = IsalSources(architecture, withIsal)
    /\ include_dirs' = IncludeDirs(withIsal, withZlib, withRpmalloc, withCxxopts)
    /\ rpmalloc_sources' = RpmallocSources(withRpmalloc)
    /\ extSources' = << <<"rapidgzip", "pyx">> >> \o ZlibSources(withZlib)
                        \o IsalSources(architecture, withIsal)
                        \o RpmallocSources(withRpmalloc)
    /\ extIncludeDirs' = IncludeDirs(withIsal, withZlib, withRpmalloc, withCxxopts)
    /\ pc' = "cythonize"
    /\ UNCHANGED <<buildVars, envVars, optVars, gateVars, log, nasmCompiler, callVars>>

\* What cythonize leaves in Extension.sources for language 'c++': each .pyx source is
\* replaced by the .cpp file generated from it, every other source is kept.
CythonizedSources(sources) ==
    [i \in DOMAIN sources |->
        IF sources[i][Len(sources[i])] = "pyx" /\ Len(sources[i]) > 1
        THEN [sources[i] EXCEPT ![Len(sources[i])] = "cpp"]
        ELSE sources[i]]

\* setup.py:230-231
Cythonize ==
    /\ pc = "cythonize"
    /\ extSources' = IF haveCython THEN CythonizedSources(extSources) ELSE extSources
    /\ pc' = "build_extensions"
    /\ UNCHANGED <<buildVars, envVars, optVars, gateVars, log, zlib_sources, isal_sources,
                   rpmalloc_sources, include_dirs, extIncludeDirs, nasmCompiler, callVars>>

\* ------------------------------------------------- Build.build_extensions

\* A backend selection that forgets the architecture test of line 267.
SelectNasmCompiler_anyArchitecture(isal, arch, platform) ==
    IF isal = "disable" THEN None
    ELSE IF platform = "win32" THEN "WinNasmCompiler"
    ELSE "NasmCompiler"

\* setup.py:267-276
SelectNasmCompiler(isal, arch, platform) ==
    IF isal = "disable" \/ arch # "x86_64" THEN None
    ELSE IF platform = "win32" THEN "WinNasmCompiler"
    ELSE "NasmCompiler"

\* setup.py:261-276 and 344: the backend is chosen and newCompile is installed
BuildExtensions ==
    /\ pc = "build_extensions"
    /\ nasmCompiler' = SelectNasmCompiler(withIsal, architecture, sysPlatform)
    /\ pc' = "compile"
    /\ UNCHANGED <<buildVars, envVars, optVars, gateVars, log, srcVars, callVars>>

\* ------------------------------------------------- Compile Dispatcher

\* str.endswith('.' + suffix)
EndsWith(source, suffix) == Len(source) > 1 /\ source[Len(source)] = suffix

\* setup.py:285, the condition of the cppSources comprehension
IsCppSource(source) ==
    Len(source) > 1 /\ source[Len(source)] \notin {"c", "S", "asm"}

EndsWithC(source) == EndsWith(source, "c")
EndsWithS(source) == EndsWith(source, "S")
EndsWithAsm(source) == EndsWith(source, "asm")

\* CCompiler.object_filenames: the source's extension replaced by the object extension
ObjectFilename(source) == [source EXCEPT ![Len(source)] = "o"]

ObjectFilenames(sources) == [i \in DOMAIN sources |-> ObjectFilename(sources[i])]

\* os.listdir(path) for the ISA-L include directories: macro-assembler includes next
\* to headers, C sources and build files
listdir(path) ==
    CASE path = "external/isa-l/include" ->
            {<<"reg_sizes", "asm">>, <<"multibinary", "asm">>, <<"igzip_lib", "h">>}
      [] path = "external/isa-l/igzip" ->
            {<<"igzip_decode_block_stateless", "asm">>, <<"inflate_data_structs", "asm">>,
             <<"igzip_inflate", "c">>}
      [] path = "external/isa-l" -> {<<"Makefile", "am">>, <<"LICENSE">>}
      [] OTHER -> {}

\* A workaround that looks into the first include directory only.
CopiedAsmFiles_firstDirectory(dirs) == {name \in listdir(dirs[1]) : EndsWithAsm(name)}

\* setup.py:327-330: the .asm files of every directory, copied to "." under their
\* own names
CopiedAsmFiles(dirs) ==
    UNION {{name \in listdir(dirs[i]) : EndsWithAsm(name)} : i \in DOMAIN dirs}

\* A spawn that is given no include directory.
AsmExtraArgs_noIncludes(dirs) == <<"-D__ASSEMBLY__", "-march=armv8-a">>

\* setup.py:334-336
AsmExtraArgs(dirs) ==
    LET RECURSIVE Flags(_)
        Flags(i) == IF i > Len(dirs) THEN <<>> ELSE <<"-I", dirs[i]>> \o Flags(i + 1)
    IN  <<"-D__ASSEMBLY__", "-march=armv8-a">> \o Flags(1)

\* setup.py:337-340, one spawn per .S source
AsmSpawns(sources, dirs) ==
    [i \in DOMAIN sources |->
        [backend |-> "spawn", sources |-> <<sources[i]>>, include_dirs |-> <<>>,
         output |-> ObjectFilename(sources[i]), extraArgs |-> AsmExtraArgs(dirs)]]

\* setup.py:431 -> 278-288: build_ext hands the extension's sources and include
\* directories to compiler.compile, which is newCompile since line 344
NewCompileEnter ==
    /\ pc = "compile"
    /\ callSources' = extSources
    /\ cSources' = SelectSeq(extSources, EndsWithC)
    /\ asmSources' = SelectSeq(extSources, EndsWithS)
    /\ nasmSources' = SelectSeq(extSources, EndsWithAsm)
    /\ cppSources' = SelectSeq(extSources, IsCppSource)
    /\ objects' = <<>>
    /\ pc' = "cpp"
    /\ UNCHANGED <<buildVars, envVars, optVars, gateVars, log, srcVars, nasmCompiler,
                   invocations, cwdCopies, returned>>

\* setup.py:290-291
CompileCppBatch ==
    /\ pc = "cpp"
    /\ IF cppSources # <<>>
       THEN /\ invocations' = Append(invocations,
                  [backend |-> "oldCompile", sources |-> cppSources,
                   include_dirs |-> extIncludeDirs])
            /\ objects' = objects \o ObjectFilenames(cppSources)
       ELSE UNCHANGED <<invocations, objects>>
    /\ pc' = "c"
    /\ UNCHANGED <<buildVars, envVars, optVars, gateVars, log, srcVars, nasmCompiler, callSources,
                   cppSources, cSources, asmSources, nasmSources, cwdCopies, returned>>

\* setup.py:303-304
CompileCBatch ==
    /\ pc = "c"
    /\ IF cSources # <<>>
       THEN /\ invocations' = Append(invocations,
                  [backend |-> "oldCompile", sources |-> cSources,
                   include_dirs |-> extIncludeDirs])
            /\ objects' = objects \o ObjectFilenames(cSources)
       ELSE UNCHANGED <<invocations, objects>>
    /\ pc' = "nasm"
    /\ UNCHANGED <<buildVars, envVars, optVars, gateVars, log, srcVars, nasmCompiler, callSources,
                   cppSources, cSources, asmSources, nasmSources, cwdCopies, returned>>

\* setup.py:306-331
CompileNasmBatch ==
    /\ pc = "nasm"
    /\ IF nasmSources # <<>> /\ nasmCompiler # None
       THEN /\ cwdCopies' = cwdCopies \cup CopiedAsmFiles(isal_includes)
            /\ invocations' = Append(invocations,
                  [backend |-> nasmCompiler, sources |-> nasmSources,
                   include_dirs |-> isal_includes])
            /\ objects' = objects \o ObjectFilenames(nasmSources)
       ELSE UNCHANGED <<cwdCopies, invocations, objects>>
    /\ pc' = "asm"
    /\ UNCHANGED <<buildVars, envVars, optVars, gateVars, log, srcVars, nasmCompiler, callSources,
                   cppSources, cSources, asmSources, nasmSources, returned>>

\* setup.py:333-340
CompileAsmFiles ==
    /\ pc = "asm"
    /\ IF asmSources # <<>>
       THEN /\ invocations' = invocations \o AsmSpawns(asmSources, extIncludeDirs)
            /\ objects' = objects \o ObjectFilenames(asmSources)
       ELSE UNCHANGED <<invocations, objects>>
    /\ pc' = "return"
    /\ UNCHANGED <<buildVars, envVars, optVars, gateVars, log, srcVars, nasmCompiler, callSources,
                   cppSources, cSources, asmSources, nasmSources, cwdCopies, returned>>

\* setup.py:342
NewCompileReturn ==
    /\ pc = "return"
    /\ returned' = objects
    /\ pc' = "done"
    /\ UNCHANGED <<buildVars, envVars, optVars, gateVars, log, srcVars, nasmCompiler, callSources,
                   cppSources, cSources, asmSources, nasmSources, objects, invocations,
                   cwdCopies>>

\* ------------------------------------------------- specification

\* No probe is running.
NoProbe == [stage |-> "idle", kind |-> None, key |-> None, name |-> <<>>,
            outcome |-> None, result |-> None]

\* Build.build_extensions has not started: nothing of the compiler has been looked
\* at, no flag composed, no probe made.
BuildIdle ==
    /\ compiler_type = None
    /\ numExtensions = 1
    /\ headerAvailable = "available"
    /\ verdict = <<>>
    /\ extIndex = 0
    /\ extra_compile_args = <<>> /\ extra_link_args = <<>> /\ libraries = <<>>
    /\ probe = NoProbe
    /\ tmpdir = {}
    /\ trialLog = <<>> /\ probeLog = <<>>
    /\ callNo = 0
    /\ callPostargs = None /\ callIncludeDirs = <<>>
    /\ error = None


Init ==
    /\ buildConfig \in BuildConfigs
    /\ machine \in Machines
    /\ system \in Systems
    /\ nasmOnPath \in BOOLEAN
    /\ haveCython \in BOOLEAN
    /\ pc = "options"
    /\ withCxxopts = None /\ withIsal = None /\ withRpmalloc = None /\ withZlib = None
    /\ architecture = None
    /\ canBuildIsal = FALSE
    /\ log = <<>>
    /\ zlib_sources = <<>> /\ isal_sources = <<>> /\ rpmalloc_sources = <<>>
    /\ include_dirs = <<>>
    /\ extSources = <<>> /\ extIncludeDirs = <<>>
    /\ nasmCompiler = None
    /\ callSources = <<>>
    /\ cppSources = <<>> /\ cSources = <<>> /\ asmSources = <<>> /\ nasmSources = <<>>
    /\ objects = <<>>
    /\ invocations = <<>>
    /\ cwdCopies = {}
    /\ returned = None
    /\ BuildIdle

Next ==
    \/ ResolveOptions
    \/ GateIsal
    \/ Assemble
    \/ Cythonize
    \/ BuildExtensions
    \/ NewCompileEnter
    \/ CompileCppBatch
    \/ CompileCBatch
    \/ CompileNasmBatch
    \/ CompileAsmFiles
    \/ NewCompileReturn

Spec == Init /\ [][Next]_vars

\* ------------------------------------------------- Capability Prober

\* the flags setup.py asks the compiler about (lines 358-425)
ProbedFlags ==
    {"-flto=auto", "-flto", "-D_FORTIFY_SOURCE=2", "-fconstexpr-ops-limit=99000100",
     "-fconstexpr-steps=99000100", "-mmacosx-version-min=13.0", "-fcf-protection=full"}

\* The probe calls of build_extensions by the position of the call: the key that is
\* probed there.
SiteKey ==
    [lto_auto |-> "-flto=auto",                        \* line 358
     lto |-> "-flto",                                  \* line 361
     fortify |-> "-D_FORTIFY_SOURCE=2",                \* line 365
     ops_limit |-> "-fconstexpr-ops-limit=99000100",   \* line 406
     steps |-> "-fconstexpr-steps=99000100",           \* line 408
     macosx |-> "-mmacosx-version-min=13.0",           \* line 414
     cf |-> "-fcf-protection=full",                    \* line 425
     unistd |-> "unistd.h"]                            \* line 428

ProbeSites == DOMAIN SiteKey

\* hasInclude is called at line 428, supportsFlag everywhere else
SiteKind(site) == IF site = "unistd" THEN "header" ELSE "flag"

\* tempfile.NamedTemporaryFile('w', suffix='.cpp'): a fresh name ending in .cpp
TempName(n) == <<"/tmp/tmp" \o ToString(n), "cpp">>

IncludeLine(header) == "#include <" \o header \o ">"

\* setup.py:236 and 247, the text handed to file.write
ProbeUnit(kind, key) ==
    IF kind = "header"
    THEN <<IncludeLine(key), "int main() { return 0; }">>
    ELSE <<"int main() { return 0; }">>

\* setup.py:235-236 and 246-247: the file is created empty and file.write leaves the
\* text in the buffer of the file object; nothing flushes or closes the file before
\* the compile of line 238 / 249, and the text is far shorter than the buffer.
WrittenTempFile(name, text) == [name |-> name, disk |-> <<>>, buffered |-> text]

\* What the compiler makes of a translation unit: it fails on the #include of a
\* header it does not find.
UnitCompiles(unit, available) ==
    IncludeLine("unistd.h") \notin Range(unit) \/ available = "available"

\* setup.py:238 and 249, the keyword arguments of the trial compile
TrialPostargs(kind, key) == IF kind = "flag" THEN <<key>> ELSE None

\* A probe that lets CompileError escape.
ProbeExitKind_escalating(outcome) == IF outcome = "ok" THEN "return_true" ELSE "raise"

\* setup.py:237-242 and 248-256: True after a compile that succeeded, False after a
\* CompileError, and any other exception leaves the function
ProbeExitKind(outcome) ==
    IF outcome = "ok" THEN "return_true"
    ELSE IF outcome = "CompileError" THEN "return_false"
    ELSE "raise"

\* A temporary file that is only removed after a successful compile.
TempAfterExit_keptOnFailure(files, name, outcome) ==
    IF outcome = "ok" THEN {f \in files : f.name # name} ELSE files

\* setup.py:235 and 246, leaving the `with` block: the file is closed and deleted,
\* whether the block is left by return or by an exception
TempAfterExit(files, name, outcome) == {f \in files : f.name # name}

\* setup.py:234-236, 245-247: supportsFlag / hasInclude is entered
ProbeEnter ==
    /\ pc \in ProbeSites
    /\ probe.stage = "idle"
    /\ LET name == TempName(Len(trialLog) + 1)
           kind == SiteKind(pc)
       IN  /\ tmpdir' = tmpdir \cup {WrittenTempFile(name, ProbeUnit(kind, SiteKey[pc]))}
           /\ probe' = [stage |-> "opened", kind |-> kind, key |-> SiteKey[pc],
                        name |-> name, outcome |-> None, result |-> None]
    /\ UNCHANGED <<envVars, pc, optVars, gateVars, log, srcVars, nasmCompiler, callVars,
                   compilerVars, flagVars, trialLog, probeLog, kwVars, error>>

\* One call of a batch backend (oldCompile or the nasm compiler) as the dispatcher
\* makes it: what it was given, whether it succeeded, and the objects it returned.
BatchInvocation(call, backend, dialect, sources, dirs, postargs, succeeded) ==
    [call |-> call, backend |-> backend, dialect |-> dialect, sources |-> sources,
     include_dirs |-> dirs, extra_postargs |-> postargs, extraArgs |-> <<>>,
     succeeded |-> succeeded,
     objects |-> IF succeeded THEN ObjectFilenames(sources) ELSE <<>>]

\* A compiler that fails every trial compile, whatever the unit and the flag: it is
\* not installed, or it cannot open the temporary file while Python holds it open.
FailingCompiler == [key \in {SiteKey[site] : site \in ProbeSites} |-> FALSE]

\* Whether the compiler gets through a trial compile for `key`, the header question
\* aside.  It answers as it did before, if it was asked before; otherwise it may
\* accept or reject a flag, and it accepts a unit compiled without a flag.
FlagAnswers(kind, key) ==
    IF key \in DOMAIN verdict THEN {verdict[key]}
    ELSE IF kind = "flag" THEN BOOLEAN ELSE {TRUE}

\* Whether the compiler finds <unistd.h>: a fact of the host, looked at for the first
\* time when a unit is compiled for the header probe.
HeaderAnswers(kind) ==
    IF kind = "header" /\ headerAvailable = None
    THEN {"available", "unavailable"}
    ELSE {headerAvailable}

\* setup.py:238 and 249: compiler.compile is newCompile since line 344, the one
\* source ends in .cpp, so lines 290-291 hand it to oldCompile with the keyword
\* arguments of the probe; the compiler reads what is on disk.  The compile succeeds,
\* raises CompileError, or raises something else (DistutilsPlatformError, OSError).
ProbeCompile ==
    /\ probe.stage = "opened"
    /\ \E file \in tmpdir, accepts \in FlagAnswers(probe.kind, probe.key), broken \in BOOLEAN,
          available \in HeaderAnswers(probe.kind) :
          /\ file.name = probe.name
          /\ headerAvailable' = available
          /\ SelectSeq(<<file.name>>, IsCppSource) = <<file.name>>
          /\ LET outcome == IF broken THEN "OtherError"
                            ELSE IF accepts /\ UnitCompiles(file.disk, available)
                                 THEN "ok"
                                 ELSE "CompileError"
             IN  /\ verdict' = IF broken THEN verdict ELSE (probe.key :> accepts) @@ verdict
                 /\ invocations' = Append(invocations,
                       BatchInvocation(callNo + 1, "oldCompile", "C++", <<file.name>>, <<>>,
                                       TrialPostargs(probe.kind, probe.key), outcome = "ok"))
                 /\ trialLog' = Append(trialLog,
                       [kind |-> probe.kind, key |-> probe.key, unit |-> file.disk,
                        ext |-> extIndex, outcome |-> outcome])
                 /\ probe' = [probe EXCEPT !.stage = "compiled", !.outcome = outcome]
    /\ callNo' = callNo + 1
    /\ UNCHANGED <<envVars, pc, optVars, gateVars, log, srcVars, nasmCompiler,
                   callSources, cppSources, cSources, asmSources, nasmSources, objects,
                   cwdCopies, returned, compiler_type, numExtensions,
                   flagVars, tmpdir, probeLog, callPostargs, callIncludeDirs, error>>

\* setup.py:239-242 and 250-256: the `with` block is left
ProbeExit ==
    /\ probe.stage = "compiled"
    /\ tmpdir' = TempAfterExit(tmpdir, probe.name, probe.outcome)
    /\ IF ProbeExitKind(probe.outcome) = "raise"
       THEN /\ pc' = "aborted"
            /\ error' = [exception |-> probe.outcome, raisedBy |-> "probe",
                          diagnostic |-> <<"oldCompile", <<probe.name>>>>]
            /\ probe' = NoProbe
            /\ UNCHANGED probeLog
       ELSE /\ probe' = [probe EXCEPT !.stage = "returned",
                                      !.result = (ProbeExitKind(probe.outcome) = "return_true")]
            /\ probeLog' = Append(probeLog,
                  [kind |-> probe.kind, key |-> probe.key, ext |-> extIndex,
                   result |-> (ProbeExitKind(probe.outcome) = "return_true")])
            /\ UNCHANGED <<pc, error>>
    /\ UNCHANGED <<envVars, optVars, gateVars, log, srcVars, nasmCompiler, callVars,
                   compilerVars, flagVars, trialLog, kwVars>>

\* ------------------------------------------------- Flag Composer

\* setup.py:349-356
BaselineCompileArgs ==
    <<"-std=c++17", "-O3", "-DNDEBUG", "-DWITH_PYTHON_SUPPORT", "-D_LARGEFILE64_SOURCE=1",
      "-D_GLIBCXX_ASSERTIONS">>

\* A composer that adds the flag whatever the probe said.
AppendIf_always(condition, args, flags) == args \o flags

\* `if condition: args += flags`
AppendIf(condition, args, flags) == IF condition THEN args \o flags ELSE args

\* A composer that defines the macros for bundled dependencies only.
DependencyDefines_whenBundled(spelling, rpmalloc, isal) ==
    (IF rpmalloc = "enable" THEN <<spelling \o "WITH_RPMALLOC">> ELSE <<>>)
        \o (IF isal = "enable" THEN <<spelling \o "WITH_ISAL">> ELSE <<>>)

\* setup.py:367-370 with spelling "-D", 396-399 with spelling "/D"
DependencyDefines(spelling, rpmalloc, isal) ==
    (IF rpmalloc # "disable" THEN <<spelling \o "WITH_RPMALLOC">> ELSE <<>>)
        \o (IF isal # "disable" THEN <<spelling \o "WITH_ISAL">> ELSE <<>>)

\* str.endswith('64') for the machine names of Machines
MachineEndsWith64(m) == m \in {"x86_64", "AMD64", "aarch64", "arm64"}

\* setup.py:376-377
Win64Define(sys, m) == IF sys = "Windows" /\ MachineEndsWith64(m) THEN <<"-DMS_WIN64">> ELSE <<>>

\* setup.py:380-386
MingwLinkArgs ==
    <<"-static-libgcc", "-static-libstdc++", "-Wl,-Bstatic,--whole-archive", "-lwinpthread",
      "-Wl,--no-whole-archive">>

\* setup.py:389-399
MsvcCompileArgs(rpmalloc, isal) ==
    <<"/std:c++17", "/O2", "/DNDEBUG", "/DWITH_PYTHON_SUPPORT", "/constexpr:steps99000100">>
        \o DependencyDefines("/D", rpmalloc, isal)

\* setup.py:400-402
MsvcLibraries(rpmalloc, libs) ==
    IF rpmalloc # "disable" THEN <<"kernel32", "user32", "shell32", "advapi32">> ELSE libs

\* the current extension's lists with one of them replaced
SetArgs(lists, value) == [lists EXCEPT ![extIndex] = value]

\* setup.py:261-276, 344-346: the backend is chosen and newCompile installed; every
\* Extension starts with empty extra_compile_args, extra_link_args and libraries
BuildExtensionsEnter ==
    /\ pc = "build_extensions"
    /\ nasmCompiler' = SelectNasmCompiler(withIsal, architecture, sysPlatform)
    /\ extIndex' = 1
    /\ extra_compile_args' = [i \in 1..numExtensions |-> <<>>]
    /\ extra_link_args' = [i \in 1..numExtensions |-> <<>>]
    /\ libraries' = [i \in 1..numExtensions |-> <<>>]
    /\ pc' = "ext_begin"
    /\ UNCHANGED <<envVars, optVars, gateVars, log, srcVars, callVars, compilerVars,
                   probeVars, kwVars, error>>

\* setup.py:348-356
ExtBegin ==
    /\ pc = "ext_begin"
    /\ extra_compile_args' = SetArgs(extra_compile_args, BaselineCompileArgs)
    /\ pc' = "lto_auto"
    /\ UNCHANGED <<envVars, optVars, gateVars, log, srcVars, nasmCompiler, callVars,
                   compilerVars, extIndex, extra_link_args, libraries, probeVars, kwVars,
                   error>>

\* what every step that resumes after a probe leaves alone
ComposerFrame ==
    UNCHANGED <<envVars, optVars, gateVars, log, srcVars, nasmCompiler, callVars,
                compilerVars, tmpdir, trialLog, probeLog, kwVars, error>>

ProbeReturnedAt(site) == pc = site /\ probe.stage = "returned"

\* setup.py:358-361
AfterLtoAuto ==
    /\ ProbeReturnedAt("lto_auto")
    /\ extra_compile_args' = SetArgs(extra_compile_args,
           AppendIf(probe.result, extra_compile_args[extIndex], <<"-flto=auto">>))
    /\ extra_link_args' = SetArgs(extra_link_args,
           AppendIf(probe.result, extra_link_args[extIndex], <<"-flto=auto">>))
    /\ pc' = IF probe.result THEN "fortify" ELSE "lto"
    /\ probe' = NoProbe
    /\ UNCHANGED <<extIndex, libraries>>
    /\ ComposerFrame

\* setup.py:361-363
AfterLto ==
    /\ ProbeReturnedAt("lto")
    /\ extra_compile_args' = SetArgs(extra_compile_args,
           AppendIf(probe.result, extra_compile_args[extIndex], <<"-flto">>))
    /\ extra_link_args' = SetArgs(extra_link_args,
           AppendIf(probe.result, extra_link_args[extIndex], <<"-flto">>))
    /\ pc' = "fortify"
    /\ probe' = NoProbe
    /\ UNCHANGED <<extIndex, libraries>>
    /\ ComposerFrame

\* setup.py:365-377, extra_compile_args when line 379 is reached
ArgsBeforeVendorBranch(args, fortified) ==
    AppendIf(fortified, args, <<"-D_FORTIFY_SOURCE=2">>)
        \o DependencyDefines("-D", withRpmalloc, withIsal)
        \o Win64Define(system, machine)

\* setup.py:365-404: up to the probe of line 406 on the default branch, up to the
\* probe of line 428 on the mingw32 and msvc branches
AfterFortify ==
    /\ ProbeReturnedAt("fortify")
    /\ extra_compile_args' = SetArgs(extra_compile_args,
           IF compiler_type = "msvc"
           THEN MsvcCompileArgs(withRpmalloc, withIsal)
           ELSE ArgsBeforeVendorBranch(extra_compile_args[extIndex], probe.result))
    /\ extra_link_args' = SetArgs(extra_link_args,
           IF compiler_type = "mingw32" THEN MingwLinkArgs ELSE extra_link_args[extIndex])
    /\ libraries' = SetArgs(libraries,
           IF compiler_type = "msvc"
           THEN MsvcLibraries(withRpmalloc, libraries[extIndex])
           ELSE libraries[extIndex])
    /\ pc' = IF compiler_type \in {"mingw32", "msvc"} THEN "unistd" ELSE "ops_limit"
    /\ probe' = NoProbe
    /\ UNCHANGED extIndex
    /\ ComposerFrame

\* setup.py:411-412
PlatformDefines(platform) == IF platform = "linux" THEN <<"-D_GNU_SOURCE">> ELSE <<>>

\* setup.py:411-425, from the end of the constexpr-limit probes to the next probe:
\* on darwin that is the probe of line 414, elsewhere the hardening flags of lines
\* 422-423 are added and the probe of line 425 is next
ResumeAtLine411(args) ==
    IF sysPlatform = "darwin"
    THEN /\ extra_compile_args' = SetArgs(extra_compile_args, args \o PlatformDefines(sysPlatform))
         /\ pc' = "macosx"
         /\ UNCHANGED extra_link_args
    ELSE /\ extra_compile_args' = SetArgs(extra_compile_args,
                args \o PlatformDefines(sysPlatform) \o <<"-fstack-protector-strong">>)
         /\ extra_link_args' = SetArgs(extra_link_args,
                extra_link_args[extIndex] \o <<"-fstack-clash-protection">>)
         /\ pc' = "cf"

\* setup.py:406-408, and 411-425 when the flag is supported
AfterOpsLimit ==
    /\ ProbeReturnedAt("ops_limit")
    /\ IF probe.result
       THEN ResumeAtLine411(extra_compile_args[extIndex] \o <<"-fconstexpr-ops-limit=99000100">>)
       ELSE /\ pc' = "steps"
            /\ UNCHANGED <<extra_compile_args, extra_link_args>>
    /\ probe' = NoProbe
    /\ UNCHANGED <<extIndex, libraries>>
    /\ ComposerFrame

\* setup.py:408-425
AfterSteps ==
    /\ ProbeReturnedAt("steps")
    /\ ResumeAtLine411(AppendIf(probe.result, extra_compile_args[extIndex],
                                <<"-fconstexpr-steps=99000100">>))
    /\ probe' = NoProbe
    /\ UNCHANGED <<extIndex, libraries>>
    /\ ComposerFrame

\* setup.py:414-425
AfterMacosx ==
    /\ ProbeReturnedAt("macosx")
    /\ extra_compile_args' = SetArgs(extra_compile_args,
           AppendIf(probe.result, extra_compile_args[extIndex], <<"-mmacosx-version-min=13.0">>)
               \o <<"-fstack-protector-strong">>)
    /\ extra_link_args' = SetArgs(extra_link_args,
           AppendIf(probe.result, extra_link_args[extIndex], <<"-mmacosx-version-min=13.0">>)
               \o <<"-fstack-clash-protection">>)
    /\ pc' = "cf"
    /\ probe' = NoProbe
    /\ UNCHANGED <<extIndex, libraries>>
    /\ ComposerFrame

\* setup.py:425-428
AfterCf ==
    /\ ProbeReturnedAt("cf")
    /\ extra_compile_args' = SetArgs(extra_compile_args,
           AppendIf(probe.result, extra_compile_args[extIndex], <<"-fcf-protection=full">>))
    /\ pc' = "unistd"
    /\ probe' = NoProbe
    /\ UNCHANGED <<extIndex, extra_link_args, libraries>>
    /\ ComposerFrame

\* setup.py:428-431: the define of the header probe, then the next extension of the
\* loop of line 348 or, after the last one, super().build_extensions()
AfterUnistd ==
    /\ ProbeReturnedAt("unistd")
    /\ extra_compile_args' = SetArgs(extra_compile_args,
           AppendIf(probe.result, extra_compile_args[extIndex], <<"-DZ_HAVE_UNISTD_H">>))
    /\ IF extIndex < numExtensions
       THEN extIndex' = extIndex + 1 /\ pc' = "ext_begin"
       ELSE extIndex' = 1 /\ pc' = "compile_ext"
    /\ probe' = NoProbe
    /\ UNCHANGED <<extra_link_args, libraries>>
    /\ ComposerFrame

\* ------------------------------------------------- Compile Dispatcher, in full

\* setup.py:294-299
cppCompileArgs ==
    <<"-fconstexpr-ops-limit=99000100", "-fconstexpr-steps=99000100", "-std=c++17",
      "/std:c++17">>

NotInCppCompileArgs(x) == ~InList(x, cppCompileArgs)

\* setup.py:300-301
FilterPostargs(postargs) ==
    IF postargs # None THEN SelectSeq(postargs, NotInCppCompileArgs) ELSE postargs

\* A dispatcher that goes on with the next batch after a backend raised.
AfterBackendError_continue(next) == next

\* setup.py:290-340 hold no try/except: an exception of a backend leaves newCompile
AfterBackendError(next) == "aborted"

\* The exception as the backend raises it: distutils reports the command that failed.
BackendError(exception, backend, sources) ==
    [exception |-> exception, raisedBy |-> "dispatcher", diagnostic |-> <<backend, sources>>]

\* setup.py:339, self.compiler.compiler_so[0]: the driver that also compiles C and C++
CompilerDriver == "compiler_so[0]"

\* setup.py:338-339, the command line handed to self.compiler.spawn
SpawnCommand(source, dirs) ==
    <<CompilerDriver, "-c", source, "-o", ObjectFilename(source)>> \o AsmExtraArgs(dirs)

\* setup.py:337-340, the spawn for one .S source
SpawnInvocation(call, source, dirs, succeeded) ==
    [call |-> call, backend |-> "spawn", dialect |-> "NativeAssembly",
     sources |-> <<source>>, include_dirs |-> <<>>, extra_postargs |-> <<>>,
     extraArgs |-> AsmExtraArgs(dirs), command |-> SpawnCommand(source, dirs),
     succeeded |-> succeeded,
     objects |-> IF succeeded THEN <<ObjectFilename(source)>> ELSE <<>>]

\* the spawns for the first n sources, the last of which fails when `failed`
SpawnInvocations(call, sources, dirs, n, failed) ==
    [i \in 1..n |-> SpawnInvocation(call, sources[i], dirs, ~(failed /\ i = n))]

RECURSIVE Flatten(_)
Flatten(seqs) == IF seqs = <<>> THEN <<>> ELSE Head(seqs) \o Flatten(Tail(seqs))

ObjectsOf(invs) == Flatten([i \in DOMAIN invs |-> invs[i].objects])

\* A dispatcher that puts the objects of a later batch in front.
Extend_front(list, new) == new \o list

\* setup.py:291, 304, 331, 340: objects.extend(...) and objects.append(obj)
Extend(list, new) == list \o new

\* what a dispatcher step leaves alone
DispatcherFrame ==
    UNCHANGED <<envVars, optVars, gateVars, log, srcVars, nasmCompiler, compilerVars,
                flagVars, probeVars>>

\* one batch handed to a backend that succeeds or raises
RunBatch(backend, dialect, sources, dirs, postargs, next) ==
    \E succeeded \in BOOLEAN :
        /\ invocations' = Append(invocations,
              BatchInvocation(callNo, backend, dialect, sources, dirs, postargs, succeeded))
        /\ IF succeeded
           THEN /\ objects' = Extend(objects, ObjectFilenames(sources))
                /\ pc' = next
                /\ UNCHANGED error
           ELSE /\ pc' = AfterBackendError(next)
                /\ error' = BackendError("CompileError", backend, sources)
                /\ UNCHANGED objects

\* build_ext.build_extension calls compiler.compile(ext.sources, include_dirs=
\* ext.include_dirs, extra_postargs=ext.extra_compile_args, ...), which is newCompile;
\* setup.py:278-288
DispatchEnter ==
    /\ pc = "compile_ext"
    /\ callNo' = callNo + 1
    /\ callSources' = extSources
    /\ callPostargs' = extra_compile_args[extIndex]
    /\ callIncludeDirs' = extIncludeDirs
    /\ cSources' = SelectSeq(extSources, EndsWithC)
    /\ asmSources' = SelectSeq(extSources, EndsWithS)
    /\ nasmSources' = SelectSeq(extSources, EndsWithAsm)
    /\ cppSources' = SelectSeq(extSources, IsCppSource)
    /\ objects' = <<>>
    /\ returned' = None
    /\ pc' = "d_cpp"
    /\ UNCHANGED <<invocations, cwdCopies, error>>
    /\ DispatcherFrame

\* setup.py:290-291
DispatchCpp ==
    /\ pc = "d_cpp"
    /\ IF cppSources # <<>>
       THEN RunBatch("oldCompile", "C++", cppSources, callIncludeDirs, callPostargs, "d_c")
       ELSE pc' = "d_c" /\ UNCHANGED <<invocations, objects, error>>
    /\ UNCHANGED <<callNo, callSources, callPostargs, callIncludeDirs, cppSources, cSources,
                   asmSources, nasmSources, cwdCopies, returned>>
    /\ DispatcherFrame

\* setup.py:293-304
DispatchC ==
    /\ pc = "d_c"
    /\ callPostargs' = FilterPostargs(callPostargs)
    /\ IF cSources # <<>>
       THEN RunBatch("oldCompile", "C", cSources, callIncludeDirs,
                     FilterPostargs(callPostargs), "d_nasm")
       ELSE pc' = "d_nasm" /\ UNCHANGED <<invocations, objects, error>>
    /\ UNCHANGED <<callNo, callSources, callIncludeDirs, cppSources, cSources, asmSources,
                   nasmSources, cwdCopies, returned>>
    /\ DispatcherFrame

\* setup.py:306-331
DispatchNasm ==
    /\ pc = "d_nasm"
    /\ IF nasmSources # <<>> /\ nasmCompiler # None
       THEN /\ cwdCopies' = cwdCopies \cup CopiedAsmFiles(isal_includes)
            /\ RunBatch(nasmCompiler, "MacroAssembly", nasmSources, isal_includes, <<>>, "d_asm")
       ELSE pc' = "d_asm" /\ UNCHANGED <<invocations, objects, error, cwdCopies>>
    /\ UNCHANGED <<callNo, callSources, callPostargs, callIncludeDirs, cppSources, cSources,
                   asmSources, nasmSources, returned>>
    /\ DispatcherFrame

\* setup.py:333-340: the sources are spawned one by one until one spawn raises
DispatchAsm ==
    /\ pc = "d_asm"
    /\ \E n \in 0..Len(asmSources), failed \in BOOLEAN :
          /\ failed => n >= 1
          /\ ~failed => n = Len(asmSources)
          /\ invocations' = invocations
                \o SpawnInvocations(callNo, asmSources, callIncludeDirs, n, failed)
          /\ objects' = Extend(objects,
                ObjectsOf(SpawnInvocations(callNo, asmSources, callIncludeDirs, n, failed)))
          /\ IF failed
             THEN /\ pc' = AfterBackendError("d_return")
                  /\ error' = BackendError("DistutilsExecError", "spawn", <<asmSources[n]>>)
             ELSE /\ pc' = "d_return"
                  /\ UNCHANGED error
    /\ UNCHANGED <<callNo, callSources, callPostargs, callIncludeDirs, cppSources, cSources,
                   asmSources, nasmSources, cwdCopies, returned>>
    /\ DispatcherFrame

\* setup.py:342, and build_ext going on to the next extension
DispatchReturn ==
    /\ pc = "d_return"
    /\ returned' = objects
    /\ IF extIndex < numExtensions
       THEN extIndex' = extIndex + 1 /\ pc' = "compile_ext"
       ELSE pc' = "done" /\ UNCHANGED extIndex
    /\ UNCHANGED <<envVars, optVars, gateVars, log, srcVars, nasmCompiler, compilerVars,
                   extra_compile_args, extra_link_args, libraries, probeVars,
                   callNo, callSources, callPostargs, callIncludeDirs, cppSources, cSources,
                   asmSources, nasmSources, objects, invocations, cwdCopies, error>>

\* ------------------------------------------------- the build in full

\* How many extensions self.extensions may hold.
MaxExtensions == 2

\* platform.system() with the compiler_type distutils picks there
Hosts ==
    {<<"Linux", "unix">>, <<"Darwin", "unix">>, <<"Windows", "msvc">>, <<"Windows", "mingw32">>}

\* The environments of the full build: ISA-L and rpmalloc both bundled, both disabled
\* or both taken from the system; zlib and cxxopts left at their default.
BuildConfigsOfBuild ==
    {[key \in {optionsPrefix \o "ISAL", optionsPrefix \o "RPMALLOC"} |-> value] :
        value \in {"enable", "disable", "system"}}

InitBuild ==
    /\ buildConfig \in BuildConfigsOfBuild
    /\ machine \in {"x86_64", "aarch64"}
    /\ \E host \in Hosts : system = host[1] /\ compiler_type = host[2]
    /\ nasmOnPath = TRUE
    /\ haveCython = TRUE
    /\ numExtensions \in 1..MaxExtensions
    /\ headerAvailable = None
    /\ verdict \in {<<>>, FailingCompiler}
    /\ pc = "options"
    /\ withCxxopts = None /\ withIsal = None /\ withRpmalloc = None /\ withZlib = None
    /\ architecture = None
    /\ canBuildIsal = FALSE
    /\ log = <<>>
    /\ zlib_sources = <<>> /\ isal_sources = <<>> /\ rpmalloc_sources = <<>>
    /\ include_dirs = <<>>
    /\ extSources = <<>> /\ extIncludeDirs = <<>>
    /\ nasmCompiler = None
    /\ callSources = <<>>
    /\ cppSources = <<>> /\ cSources = <<>> /\ asmSources = <<>> /\ nasmSources = <<>>
    /\ objects = <<>>
    /\ invocations = <<>>
    /\ cwdCopies = {}
    /\ returned = None
    /\ extIndex = 0
    /\ extra_compile_args = <<>> /\ extra_link_args = <<>> /\ libraries = <<>>
    /\ probe = NoProbe
    /\ tmpdir = {}
    /\ trialLog = <<>> /\ probeLog = <<>>
    /\ callNo = 0
    /\ callPostargs = None /\ callIncludeDirs = <<>>
    /\ error = None

NextBuild ==
    \/ ResolveOptions
    \/ GateIsal
    \/ Assemble
    \/ Cythonize
    \/ BuildExtensionsEnter
    \/ ExtBegin
    \/ ProbeEnter
    \/ ProbeCompile
    \/ ProbeExit
    \/ AfterLtoAuto
    \/ AfterLto
    \/ AfterFortify
    \/ AfterOpsLimit
    \/ AfterSteps
    \/ AfterMacosx
    \/ AfterCf
    \/ AfterUnistd
    \/ DispatchEnter
    \/ DispatchCpp
    \/ DispatchC
    \/ DispatchNasm
    \/ DispatchAsm
    \/ DispatchReturn

SpecBuild == InitBuild /\ [][NextBuild]_vars

\* ------------------------------------------------- the dispatcher on its own

\* How many sources one call of newCompile is given.
MaxSources == 2

\* Paths as newCompile may be handed them: the suffixes it names, suffixes that differ
\* from them in case only, a dot in a directory name only, and no dot at all.
SourcePaths ==
    {<<"rapidgzip", "cpp">>, <<"external/zlib/inflate", "c">>,
     <<"external/isa-l/igzip/igzip_body", "asm">>,
     <<"external/isa-l/igzip/aarch64/igzip_inflate_multibinary_arm64", "S">>,
     <<"core/helper", "C">>, <<"core/helper", "s">>, <<"build/v1", "2/Makefile">>,
     <<"Makefile">>}

SourceLists == UNION {[1..n -> SourcePaths] : n \in 0..MaxSources}

\* newCompile called on a bounded list of paths, after flag composition for one
\* extension on an x86_64 Linux host with every dependency bundled
InitDispatch ==
    /\ buildConfig = <<>>
    /\ machine = "x86_64"
    /\ system = "Linux"
    /\ nasmOnPath = TRUE
    /\ haveCython = TRUE
    /\ compiler_type \in {"unix", "msvc"}
    /\ numExtensions = 1
    /\ headerAvailable = "available"
    /\ verdict = <<>>
    /\ pc = "compile_ext"
    /\ withCxxopts = "enable" /\ withIsal = "enable" /\ withRpmalloc = "enable"
    /\ withZlib = "enable"
    /\ architecture = "x86_64"
    /\ canBuildIsal = TRUE
    /\ log = <<>>
    /\ zlib_sources = <<>> /\ isal_sources = <<>> /\ rpmalloc_sources = <<>>
    /\ include_dirs = base_include_dirs
    /\ extSources \in SourceLists
    /\ extIncludeDirs = base_include_dirs
    /\ nasmCompiler \in {None, "NasmCompiler"}
    /\ callSources = <<>>
    /\ cppSources = <<>> /\ cSources = <<>> /\ asmSources = <<>> /\ nasmSources = <<>>
    /\ objects = <<>>
    /\ invocations = <<>>
    /\ cwdCopies = {}
    /\ returned = None
    /\ extIndex = 1
    /\ extra_compile_args =
          [i \in 1..1 |-> IF compiler_type = "msvc"
                          THEN MsvcCompileArgs(withRpmalloc, withIsal)
                          ELSE BaselineCompileArgs]
    /\ extra_link_args = [i \in 1..1 |-> <<>>]
    /\ libraries = [i \in 1..1 |-> <<>>]
    /\ probe = NoProbe
    /\ tmpdir = {}
    /\ trialLog = <<>> /\ probeLog = <<>>
    /\ callNo = 0
    /\ callPostargs = None /\ callIncludeDirs = <<>>
    /\ error = None

NextDispatch ==
    \/ DispatchEnter
    \/ DispatchCpp
    \/ DispatchC
    \/ DispatchNasm
    \/ DispatchAsm
    \/ DispatchReturn

SpecDispatch == InitDispatch /\ [][NextDispatch]_vars

\* ------------------------------------------------- properties

OptionalKeys == {"ISAL", "RPMALLOC", "ZLIB"}

\* the resolved mode of a dependency, by its option key
Resolved(key) ==
    CASE key = "CXXOPTS" -> withCxxopts
      [] key = "ISAL" -> withIsal
      [] key = "RPMALLOC" -> withRpmalloc
      [] key = "ZLIB" -> withZlib

Logged(kind, key) ==
    \E i \in DOMAIN log : log[i].kind = kind /\ log[i].key = optionsPrefix \o key

AfterResolution == pc # "options"
AfterGating == pc \notin {"options", "gate"}
AfterAssembly == pc \notin {"options", "gate", "assemble"}
AfterBackendSelection == pc \notin {"options", "gate", "assemble", "cythonize", "build_extensions"}
InDispatcher == pc \in {"cpp", "c", "nasm", "asm", "return", "done"}
AfterDispatch == pc \in {"return", "done"}

X86Machines == {"x86_64", "AMD64"}
ArmMachines == {"aarch64", "arm64"}

X86Entries == Range(PrependAll("external/isa-l/", isal_sources_x86_64))
Aarch64Entries == Range(PrependAll("external/isa-l/", isal_sources_aarch64))
PortableIsalEntries == Range(PrependAll("external/isa-l/", isal_sources_base))
AllIsalEntries == PortableIsalEntries \cup X86Entries \cup Aarch64Entries
ZlibEntries == Range(PrependAll("external/zlib/", zlib_source_names))
RpmallocEntries == { <<"external/rpmalloc/rpmalloc/rpmalloc", "c">> }

HasSuffix(sources, suffix) ==
    \E i \in DOMAIN sources :
        Len(sources[i]) > 1 /\ sources[i][Len(sources[i])] = suffix

\* C1: after resolution cxxopts is never `disable`, whatever was requested and
\* whatever the host is; a `disable` request for it resolves to `enable` and a
\* ForcedOverride warning is in the log.
C1_CxxoptsNeverDisabled ==
    AfterResolution =>
        /\ withCxxopts # "disable"
        /\ RequestedOption("CXXOPTS") = "disable" =>
              /\ withCxxopts = "enable"
              /\ Logged("ForcedOverride", "CXXOPTS")

C1_Witness ==
    /\ pc = "done"
    /\ "RAPIDGZIP_BUILD_CXXOPTS" \in DOMAIN buildConfig
    /\ buildConfig["RAPIDGZIP_BUILD_CXXOPTS"] = "disable"
    /\ withCxxopts = "enable"
    /\ Logged("ForcedOverride", "CXXOPTS")

\* C2: a requested value outside {enable, disable, system} makes getDependencyOption
\* yield `disable` with a warning recorded, for each optional dependency; for
\* cxxopts the final resolved mode is `enable` instead.
C2_InvalidValueDisables ==
    AfterResolution =>
        \A key \in DependencyKeys :
            RequestedOption(key) \notin {"enable", "disable", "system"} =>
                /\ Logged("Unrecognized", key)
                /\ key \in OptionalKeys => Resolved(key) = "disable"
                /\ key = "CXXOPTS" => Resolved(key) = "enable"

C2_Witness ==
    /\ pc = "gate"
    /\ RequestedOption("ZLIB") \in InvalidValues
    /\ RequestedOption("ISAL") \in InvalidValues
    /\ RequestedOption("CXXOPTS") \in InvalidValues
    /\ withZlib = "disable" /\ withIsal = "disable" /\ withCxxopts = "enable"
    /\ Logged("Unrecognized", "ZLIB")

\* C3 as stated: for every dependency, cxxopts included, the resolved mode is the
\* requested mode or `disable`, and a `disable` request never ends `enable` or
\* `system`.
C3_MonotonicForEveryDependency ==
    AfterResolution =>
        \A key \in DependencyKeys :
            /\ Resolved(key) \in {RequestedOption(key), "disable"}
            /\ RequestedOption(key) = "disable" => Resolved(key) \notin {"enable", "system"}

\* C3 amended: resolution is monotonic for every optional dependency (ISA-L,
\* rpmalloc, zlib): the resolved mode is the requested mode or a narrowing of it to
\* `disable`, and a `disable` request never ends `enable` or `system`.  cxxopts is
\* the exception: an `enable` or `system` request is kept and every other request,
\* `disable` included, is widened to `enable`.
C3_MonotonicForOptionalDependencies ==
    AfterResolution =>
        /\ \A key \in OptionalKeys :
              /\ Resolved(key) \in {RequestedOption(key), "disable"}
              /\ RequestedOption(key) = "disable" => Resolved(key) = "disable"
        /\ IF RequestedOption("CXXOPTS") \in {"enable", "system"}
           THEN withCxxopts = RequestedOption("CXXOPTS")
           ELSE withCxxopts = "enable"

C3_Witness ==
    /\ pc = "done"
    /\ RequestedOption("ISAL") = "enable" /\ withIsal = "disable"
    /\ RequestedOption("ZLIB") = "system" /\ withZlib = "system"
    /\ RequestedOption("RPMALLOC") = "disable" /\ withRpmalloc = "disable"
    /\ RequestedOption("CXXOPTS") = "disable" /\ withCxxopts = "enable"

\* C4: on a machine outside x86_64/AMD64/aarch64/arm64 ISA-L resolves to `disable`
\* whatever was requested, whatever the OS and whether or not nasm is found.
C4_UnsupportedArchitectureDisablesIsal ==
    (AfterGating /\ machine \notin X86Machines \cup ArmMachines) =>
        /\ withIsal = "disable"
        /\ architecture = None

C4_Witness ==
    /\ pc = "assemble"
    /\ machine = "i686" /\ system = "Linux" /\ nasmOnPath
    /\ RequestedOption("ISAL") = "enable"
    /\ withIsal = "disable"

\* C5: ISA-L resolves to `disable` on x86_64 without nasm and on Darwin (also on
\* aarch64, also with nasm); on aarch64 off Darwin a missing nasm does not disable
\* it: a requested `enable` or `system` is kept.
C5_AssemblerAndDenylistGating ==
    AfterGating =>
        /\ (machine \in X86Machines /\ ~nasmOnPath) => withIsal = "disable"
        /\ system = "Darwin" => withIsal = "disable"
        /\ (machine \in ArmMachines /\ system # "Darwin"
                /\ RequestedOption("ISAL") \in {"enable", "system"}) =>
              withIsal = RequestedOption("ISAL")

C5_Witness ==
    /\ pc = "assemble"
    /\ machine = "aarch64" /\ system = "Linux" /\ ~nasmOnPath
    /\ RequestedOption("ISAL") = "enable"
    /\ withIsal = "enable"

\* C6: whenever the source list handed to the dispatcher holds a .asm source, nasm
\* was found at resolution and the macro-assembler backend is not None; once the
\* dispatcher is past the MacroAssembly step, every .asm source it was handed has
\* been passed to that backend in one invocation.
C6_AssemblerCaughtAtResolution ==
    (InDispatcher /\ HasSuffix(callSources, "asm")) =>
        /\ nasmOnPath
        /\ canBuildIsal
        /\ nasmCompiler # None
        /\ nasmSources = SelectSeq(callSources, EndsWithAsm)
        /\ pc \in {"asm", "return", "done"} =>
              \E i \in DOMAIN invocations :
                  /\ invocations[i].backend = nasmCompiler
                  /\ invocations[i].sources = nasmSources

C6_Witness ==
    /\ pc = "done"
    /\ HasSuffix(callSources, "asm")
    /\ nasmOnPath
    /\ \E i \in DOMAIN invocations : invocations[i].backend = "NasmCompiler"

\* C7: the assembled source list holds no entry of isal_sources_by_architecture that
\* belongs to another architecture than the target: no x86_64 entry unless the
\* architecture is x86_64, no aarch64 entry unless it is aarch64, none of either on
\* an unsupported architecture.
C7_NoForeignArchitectureSources ==
    AfterAssembly =>
        \A i \in DOMAIN extSources :
            /\ extSources[i] \in X86Entries => architecture = "x86_64"
            /\ extSources[i] \in Aarch64Entries => architecture = "aarch64"
            /\ EndsWithAsm(extSources[i]) => architecture = "x86_64"
            /\ EndsWithS(extSources[i]) => architecture = "aarch64"

C7_Witness ==
    /\ pc = "cythonize"
    /\ architecture = "aarch64"
    /\ withIsal = "enable"
    /\ Aarch64Entries \subseteq Range(extSources)
    /\ X86Entries \cap Range(extSources) = {}

\* the ISA-L sources the target architecture calls for
IsalEntriesOf(arch) ==
    PortableIsalEntries
        \cup (IF arch = "x86_64" THEN X86Entries ELSE {})
        \cup (IF arch = "aarch64" THEN Aarch64Entries ELSE {})

\* C8: the ISA-L sources (portable and architecture-specific) and the ISA-L include
\* directories are in the assembled output iff ISA-L resolved to `enable`; resolved
\* otherwise (in particular `disable` or `system` on x86_64 with nasm present) the
\* output has no ISA-L source and no .asm source.
C8_IsalSourcesIffEnabled ==
    AfterAssembly =>
        /\ withIsal = "enable" <=> IsalEntriesOf(architecture) \subseteq Range(extSources)
        /\ withIsal = "enable" <=> Range(isal_includes) \subseteq Range(extIncludeDirs)
        /\ withIsal # "enable" =>
              /\ AllIsalEntries \cap Range(extSources) = {}
              /\ Range(isal_includes) \cap Range(extIncludeDirs) = {}
              /\ ~HasSuffix(extSources, "asm")
              /\ isal_sources = <<>>

C8_Witness ==
    /\ pc = "cythonize"
    /\ machine = "x86_64" /\ nasmOnPath /\ system = "Linux"
    /\ RequestedOption("ISAL") = "system"
    /\ withIsal = "system"
    /\ AllIsalEntries \cap Range(extSources) = {}

\* C9: with ISA-L enabled on aarch64 the architecture-specific sources are exactly
\* the aarch64 table, no .asm source appears, the macro-assembler backend is None,
\* and once the dispatcher has run each .S source was compiled by exactly one spawn
\* of the compiler driver and no invocation of another backend holds a .S source.
C9_Aarch64UsesCompilerDriver ==
    (AfterAssembly /\ architecture = "aarch64" /\ withIsal = "enable") =>
        /\ Aarch64Entries \subseteq Range(extSources)
        /\ X86Entries \cap Range(extSources) = {}
        /\ ~HasSuffix(extSources, "asm")
        /\ HasSuffix(extSources, "S")
        /\ AfterBackendSelection => nasmCompiler = None
        /\ AfterDispatch =>
              /\ \A i \in DOMAIN callSources :
                    EndsWithS(callSources[i]) =>
                        Cardinality({j \in DOMAIN invocations :
                            /\ invocations[j].backend = "spawn"
                            /\ invocations[j].sources = <<callSources[i]>>}) = 1
              /\ \A j \in DOMAIN invocations :
                    invocations[j].backend # "spawn" =>
                        /\ ~HasSuffix(invocations[j].sources, "S")
                        /\ invocations[j].backend = "oldCompile"

C9_Witness ==
    /\ pc = "done"
    /\ architecture = "aarch64" /\ withIsal = "enable"
    /\ asmSources # <<>>
    /\ nasmCompiler = None
    /\ Cardinality({j \in DOMAIN invocations : invocations[j].backend = "spawn"})
          = Len(asmSources)

\* C10: rapidgzip.pyx is in the assembled source list for every configuration, and
\* the bundled sources and the bundled include directory of zlib and of rpmalloc are
\* present iff that dependency resolved to `enable`; `system` and `disable`
\* contribute none.
C10_BundledSourcesIffEnabled ==
    /\ pc = "cythonize" => <<"rapidgzip", "pyx">> \in Range(extSources)
    /\ AfterAssembly =>
          /\ withZlib = "enable" <=> ZlibEntries \subseteq Range(extSources)
          /\ withZlib # "enable" => ZlibEntries \cap Range(extSources) = {}
          /\ withZlib = "enable" <=> "external/zlib" \in Range(extIncludeDirs)
          /\ withRpmalloc = "enable" <=> RpmallocEntries \subseteq Range(extSources)
          /\ withRpmalloc = "enable" <=> "external/rpmalloc/rpmalloc" \in Range(extIncludeDirs)

C10_Witness ==
    /\ pc = "cythonize"
    /\ withZlib = "system" /\ withRpmalloc = "enable"
    /\ <<"rapidgzip", "pyx">> \in Range(extSources)
    /\ ZlibEntries \cap Range(extSources) = {}
    /\ RpmallocEntries \subseteq Range(extSources)
    /\ "external/zlib" \notin Range(extIncludeDirs)

\* ------------------------------------------------- properties of the build

\* a dispatcher call has sorted its sources
Classified == callNo > 0 /\ pc # "compile_ext"

\* the batches of the current dispatcher call that hold `source`
BatchesHolding(source) ==
    {b \in {"C++", "C", "MacroAssembly", "NativeAssembly"} :
        InList(source, CASE b = "C++" -> cppSources
                         [] b = "C" -> cSources
                         [] b = "MacroAssembly" -> nasmSources
                         [] b = "NativeAssembly" -> asmSources)}

\* C11: every source path given to newCompile lies in exactly one of the four batches,
\* paths without a suffix included.
C11_EverySourceInExactlyOneBatch ==
    Classified =>
        \A i \in DOMAIN callSources : Cardinality(BatchesHolding(callSources[i])) = 1

\* the flags only a C++ compilation understands: language-standard-version flags and
\* constant-expression-evaluation-limit flags, in both the GNU and the MSVC spelling
CppOnlyFlags ==
    {"-std=c++17", "/std:c++17", "-fconstexpr-ops-limit=99000100",
     "-fconstexpr-steps=99000100", "/constexpr:steps99000100"}

\* the invocations that compiled the C batch of an extension
CBatches == {i \in DOMAIN invocations : invocations[i].dialect = "C"}

\* C12: in every vendor branch and for every probe outcome, no C++-only flag is in the
\* argument list passed to the C batch compile (whose arguments are drawn from the
\* composed C++ argument list).
C12_NoCppOnlyFlagInCBatch ==
    \A i \in CBatches :
        \A flag \in CppOnlyFlags : ~InList(flag, invocations[i].extra_postargs)

\* C13: within one build, the probes for one key run one trial compile between them,
\* also when build_extensions iterates over more than one extension.
C13_OneTrialCompilePerKey ==
    \A i, j \in DOMAIN trialLog :
        trialLog[i].key = trialLog[j].key => i = j

\* the probes that have returned `result` for `flag` while composing extension `ext`
ProbeResults(flag, ext, result) ==
    {j \in DOMAIN probeLog :
        /\ probeLog[j].kind = "flag"
        /\ probeLog[j].key = flag
        /\ probeLog[j].ext = ext
        /\ probeLog[j].result = result}

\* C14: a flag-support probe for a flag the compiler rejects returns false, and a
\* probe-gated flag is in an extension's C++ compile arguments only if a probe for
\* exactly that flag returned true.
C14_ProbeGatedFlagsNeedTrueProbe ==
    /\ \A j \in DOMAIN probeLog :
          (/\ probeLog[j].kind = "flag"
           /\ probeLog[j].key \in DOMAIN verdict
           /\ ~verdict[probeLog[j].key]) => ~probeLog[j].result
    /\ \A ext \in DOMAIN extra_compile_args :
          \A flag \in ProbedFlags :
              InList(flag, extra_compile_args[ext]) => ProbeResults(flag, ext, TRUE) # {}

\* a finished build whose compiler rejected -flto=auto and accepted -flto and
\* -fcf-protection=full
C14_Witness ==
    /\ pc = "done"
    /\ ProbeResults("-flto=auto", 1, FALSE) # {}
    /\ ~InList("-flto=auto", extra_compile_args[1])
    /\ InList("-flto", extra_compile_args[1])
    /\ InList("-fcf-protection=full", extra_compile_args[1])

\* the trial compiles of probes of `kind` that ended in CompileError
FailedTrials(kind) ==
    {i \in DOMAIN trialLog :
        trialLog[i].kind = kind /\ trialLog[i].outcome = "CompileError"}

\* the step of build_extensions that takes the answer of the probe it waits for
ComposerStep ==
    \/ AfterLtoAuto
    \/ AfterLto
    \/ AfterFortify
    \/ AfterOpsLimit
    \/ AfterSteps
    \/ AfterMacosx
    \/ AfterCf
    \/ AfterUnistd

\* flag composition has run to its end for every extension
Composed ==
    \/ pc \in {"compile_ext", "d_cpp", "d_c", "d_nasm", "d_asm", "d_return", "done"}
    \/ pc = "aborted" /\ error.raisedBy = "dispatcher"

\* C15: a trial compile that fails (CompileError) inside supportsFlag or hasInclude is
\* not escalated: the probe returns false, the build is not aborted by it, and flag
\* composition goes on to its end with the remaining steps applied.
C15_FailedProbeNotEscalated ==
    /\ \A i \in DOMAIN probeLog :
          trialLog[i].outcome = "CompileError" =>
              /\ probeLog[i].key = trialLog[i].key
              /\ probeLog[i].result = FALSE
    /\ Len(trialLog) - Len(probeLog) \in {0, 1}
    /\ pc = "aborted" => ~(error.raisedBy = "probe" /\ error.exception = "CompileError")
    /\ probe.stage = "returned" => ENABLED ComposerStep
    /\ Composed =>
          \A ext \in 1..numExtensions :
              /\ \E j \in DOMAIN probeLog :
                    probeLog[j].key = "unistd.h" /\ probeLog[j].ext = ext
              /\ compiler_type # "msvc" =>
                    /\ SubSeq(extra_compile_args[ext], 1, 6) = BaselineCompileArgs
                    /\ InList("-DWITH_RPMALLOC", extra_compile_args[ext])
                          <=> withRpmalloc # "disable"
              /\ compiler_type \notin {"msvc", "mingw32"} =>
                    InList("-fstack-protector-strong", extra_compile_args[ext])

\* a build of two extensions that finished although a flag probe and the header probe
\* failed to compile
C15_Witness ==
    /\ pc = "done"
    /\ numExtensions = 2
    /\ FailedTrials("flag") # {}
    /\ FailedTrials("header") # {}

\* the backend invocations that ended in an exception
FailedInvocations == {i \in DOMAIN invocations : ~invocations[i].succeeded}

\* C16: a compile failure in any batch ends the dispatch at once: the failing
\* invocation is the last one made (nothing later in the order is compiled, nothing is
\* retried), and no object list is returned to the caller.
C16_FailureAbortsDispatch ==
    /\ \A i \in FailedInvocations :
          /\ i = Len(invocations)
          /\ pc = "aborted"
          /\ returned = None
    /\ pc = "aborted" => FailedInvocations # {}

\* the C batch failed while a MacroAssembly or NativeAssembly source was still to come
C16_Witness ==
    /\ pc = "aborted"
    /\ invocations[Len(invocations)].dialect = "C"
    /\ nasmSources \o asmSources # <<>>

\* the invocation whose exception ended the dispatcher call
FailingInvocation == invocations[Len(invocations)]

\* C17: when a compile fails, the error that reaches the caller of the dispatcher
\* carries the backend's diagnostic unchanged together with an annotation that names
\* the offending dialect and file.
C17_ErrorNamesDialectAndFile ==
    pc = "aborted" =>
        /\ error.diagnostic = <<FailingInvocation.backend, FailingInvocation.sources>>
        /\ "annotation" \in DOMAIN error
        /\ error.annotation.dialect = FailingInvocation.dialect
        /\ error.annotation.file \in Range(FailingInvocation.sources)

\* the place of a dialect in the dispatch order
DialectRank(dialect) ==
    CASE dialect = "C++" -> 1
      [] dialect = "C" -> 2
      [] dialect = "MacroAssembly" -> 3
      [] dialect = "NativeAssembly" -> 4

\* the invocations made for `dialect`, in the order they were made
InvocationsFor(dialect) ==
    LET IsFor(inv) == inv.dialect = dialect IN SelectSeq(invocations, IsFor)

\* the sources of the batch that the dispatcher hands to a backend for `dialect`
DispatchedBatch(dialect) ==
    CASE dialect = "C++" -> cppSources
      [] dialect = "C" -> cSources
      [] dialect = "MacroAssembly" -> IF nasmCompiler # None THEN nasmSources ELSE <<>>
      [] dialect = "NativeAssembly" -> asmSources

\* C18: within one dispatcher call the backends run in the order C++, C, MacroAssembly,
\* NativeAssembly; a batch is invoked at most once and only when it is not empty
\* (MacroAssembly only with a backend), the NativeAssembly files one by one in list
\* order; the returned object list is the batches' objects concatenated in that order.
C18_DispatchOrder ==
    /\ \A i, j \in DOMAIN invocations :
          i < j => DialectRank(invocations[i].dialect) <= DialectRank(invocations[j].dialect)
    /\ \A dialect \in {"C++", "C", "MacroAssembly"} :
          /\ Len(InvocationsFor(dialect)) <= 1
          /\ \A k \in DOMAIN InvocationsFor(dialect) :
                /\ InvocationsFor(dialect)[k].sources = DispatchedBatch(dialect)
                /\ DispatchedBatch(dialect) # <<>>
    /\ Len(InvocationsFor("NativeAssembly")) <= Len(asmSources)
    /\ \A k \in DOMAIN InvocationsFor("NativeAssembly") :
          InvocationsFor("NativeAssembly")[k].sources = <<asmSources[k]>>
    /\ pc = "done" =>
          /\ \A dialect \in {"C++", "C", "MacroAssembly"} :
                DispatchedBatch(dialect) # <<>> => Len(InvocationsFor(dialect)) = 1
          /\ Len(InvocationsFor("NativeAssembly")) = Len(asmSources)
          /\ returned = ObjectFilenames(DispatchedBatch("C++") \o DispatchedBatch("C")
                            \o DispatchedBatch("MacroAssembly")
                            \o DispatchedBatch("NativeAssembly"))

\* a call that was given a .S file before a C++ file and has compiled the C++ file first
C18_Witness ==
    /\ pc = "done"
    /\ Len(callSources) >= 2
    /\ EndsWithS(callSources[1])
    /\ IsCppSource(callSources[2])
    /\ Len(invocations) = 2
    /\ invocations[1].dialect = "C++"
    /\ invocations[2].dialect = "NativeAssembly"
    /\ returned = <<ObjectFilename(callSources[2]), ObjectFilename(callSources[1])>>

\* the outcomes of the trial compiles made so far
TrialOutcomes == {trialLog[i].outcome : i \in DOMAIN trialLog}

\* C19: the temporary file of a probe is gone once the probe has been left, whether its
\* trial compile succeeded, raised CompileError or raised anything else; while the
\* probe runs, its file is the only one.
C19_TempFileRemovedOnEveryExit ==
    /\ probe.stage \in {"idle", "returned"} => tmpdir = {}
    /\ probe.stage \in {"opened", "compiled"} =>
          /\ Cardinality(tmpdir) = 1
          /\ \A file \in tmpdir : file.name = probe.name

\* probes have been left on all three paths: after a compile that succeeded, after a
\* CompileError, and now by an exception of another class that ended the build
C19_Witness ==
    /\ pc = "aborted"
    /\ error.raisedBy = "probe"
    /\ TrialOutcomes = {"ok", "CompileError", "OtherError"}
    /\ tmpdir = {}

\* the trial compiles made for the header probe
HeaderTrials == {i \in DOMAIN trialLog : trialLog[i].kind = "header"}

\* C20: the unit the header probe hands to the compiler holds the #include of the
\* header when it is compiled, hasInclude returns false whenever the header is
\* unavailable, and -DZ_HAVE_UNISTD_H is in the final compile arguments of every
\* extension if and only if the header is available.
C20_HeaderProbeSeesInclude ==
    /\ \A i \in HeaderTrials : IncludeLine("unistd.h") \in Range(trialLog[i].unit)
    /\ \A j \in DOMAIN probeLog :
          (probeLog[j].kind = "header" /\ headerAvailable = "unavailable")
              => ~probeLog[j].result
    /\ Composed =>
          \A ext \in 1..numExtensions :
              InList("-DZ_HAVE_UNISTD_H", extra_compile_args[ext])
                  <=> headerAvailable = "available"

\* the .asm files of the three ISA-L include directories, by name
AsmIncludeFiles ==
    {<<"reg_sizes", "asm">>, <<"multibinary", "asm">>,
     <<"igzip_decode_block_stateless", "asm">>, <<"inflate_data_structs", "asm">>}

\* the macro assembler has been invoked in this dispatcher call
MacroAssemblerInvoked == InvocationsFor("MacroAssembly") # <<>>

\* C21: the include-copy workaround runs only in a dispatcher call with a non-empty
\* MacroAssembly batch and a located backend, and has then copied every .asm file of
\* every ISA-L include directory (and nothing else) to the working directory by the
\* time the macro assembler is invoked, even if that invocation fails; in every other
\* call the dispatcher copies nothing there.
C21_IncludeCopyOnlyForMacroAssembly ==
    /\ MacroAssemblerInvoked => cwdCopies = AsmIncludeFiles
    /\ ~MacroAssemblerInvoked => cwdCopies = {}
    /\ MacroAssemblerInvoked => nasmSources # <<>> /\ nasmCompiler # None
    /\ (pc \in {"d_asm", "d_return", "done"} /\ nasmSources # <<>> /\ nasmCompiler # None)
          => MacroAssemblerInvoked

\* the macro assembler was invoked and failed, with the copies already made
C21_Witness ==
    /\ pc = "aborted"
    /\ FailingInvocation.dialect = "MacroAssembly"
    /\ cwdCopies = AsmIncludeFiles

\* how the vendor branch of the compiler spells a preprocessor define
DefineSpelling == IF compiler_type = "msvc" THEN "/D" ELSE "-D"

\* the spelling of the other vendor branches
ForeignSpelling == IF compiler_type = "msvc" THEN "-D" ELSE "/D"

\* C22: in every vendor branch the final C++ compile arguments of an extension hold
\* the WITH_RPMALLOC define if and only if rpmalloc's resolved mode is not `disable`,
\* and the WITH_ISAL define if and only if ISA-L's resolved mode is not `disable`, each
\* in the spelling of the branch and in no other.
C22_DependencyDefinesInEveryBranch ==
    Composed =>
        \A ext \in 1..numExtensions :
            /\ InList(DefineSpelling \o "WITH_RPMALLOC", extra_compile_args[ext])
                  <=> withRpmalloc # "disable"
            /\ InList(DefineSpelling \o "WITH_ISAL", extra_compile_args[ext])
                  <=> withIsal # "disable"
            /\ ~InList(ForeignSpelling \o "WITH_RPMALLOC", extra_compile_args[ext])
            /\ ~InList(ForeignSpelling \o "WITH_ISAL", extra_compile_args[ext])

\* an MSVC build with rpmalloc taken from the system has /DWITH_RPMALLOC
C22_Witness ==
    /\ pc = "done"
    /\ compiler_type = "msvc"
    /\ withRpmalloc = "system"
    /\ InList("/DWITH_RPMALLOC", extra_compile_args[numExtensions])

\* the spawns of the current dispatcher call, in the order they were made
Spawns == InvocationsFor("NativeAssembly")

\* the command has the fixed head for `source` and then "-I", directory for each of
\* the call's include directories, in their order, and nothing after them
HasSpawnShape(command, source) ==
    /\ Len(command) = 7 + 2 * Len(callIncludeDirs)
    /\ SubSeq(command, 1, 7) =
          <<CompilerDriver, "-c", source, "-o", ObjectFilename(source),
            "-D__ASSEMBLY__", "-march=armv8-a">>
    /\ \A i \in DOMAIN callIncludeDirs :
          /\ command[7 + 2 * i - 1] = "-I"
          /\ command[7 + 2 * i] = callIncludeDirs[i]

\* C23: for each .S source the dispatcher spawns one command [driver, -c, source, -o,
\* object, -D__ASSEMBLY__, -march=armv8-a, -I dir for each include directory of the
\* call]; none of the composed extra arguments is in it; a finished call has spawned
\* once per .S source and appended exactly one object for each.
C23_SpawnCommandShape ==
    /\ Len(Spawns) <= Len(asmSources)
    /\ \A k \in DOMAIN Spawns :
          /\ Spawns[k].backend = "spawn"
          /\ HasSpawnShape(Spawns[k].command, asmSources[k])
          /\ \A i \in DOMAIN extra_compile_args[extIndex] :
                ~InList(extra_compile_args[extIndex][i], Spawns[k].command)
    /\ pc = "done" =>
          /\ Len(Spawns) = Len(asmSources)
          /\ Len(returned) >= Len(asmSources)
          /\ SubSeq(returned, Len(returned) - Len(asmSources) + 1, Len(returned))
                = ObjectFilenames(asmSources)

\* a finished call that compiled a C file and spawned the compiler driver for a .S file
C23_Witness ==
    /\ pc = "done"
    /\ Len(asmSources) = 1
    /\ Len(cSources) = 1
    /\ Len(Spawns) = 1
    /\ Len(returned) = 2

\* the two spellings of link-time optimization, the primary one first
LtoFlags == <<"-flto=auto", "-flto">>

\* at most one spelling is in the list
AtMostOneLto(args) == ~(InList(LtoFlags[1], args) /\ InList(LtoFlags[2], args))

\* every probe of the fallback spelling follows a probe of the primary spelling, made
\* for the same extension, that returned false
FallbackOnlyAfterRejection ==
    \A j \in DOMAIN probeLog :
        probeLog[j].key = LtoFlags[2] =>
            \E i \in 1..(j - 1) :
                /\ probeLog[i].key = LtoFlags[1]
                /\ probeLog[i].ext = probeLog[j].ext
                /\ ~probeLog[i].result

\* C24: after flag composition, in every vendor branch and for every probe outcome, at
\* most one LTO spelling is selected, the fallback is probed only when the primary was
\* rejected, and an LTO flag is in the final compile arguments if and only if it is in
\* the final link arguments.
C24_LtoCompileIffLink ==
    /\ FallbackOnlyAfterRejection
    /\ Composed =>
          \A ext \in 1..numExtensions :
              /\ AtMostOneLto(extra_compile_args[ext])
              /\ AtMostOneLto(extra_link_args[ext])
              /\ \A k \in DOMAIN LtoFlags :
                    InList(LtoFlags[k], extra_compile_args[ext])
                        <=> InList(LtoFlags[k], extra_link_args[ext])

====
